---- MODULE Spec2Model ----
(***************************************************************************)
(* Feller Zeptrion integration: the hub facade (hub.py), its transport,    *)
(* and the blind cover entity (cover.py) that tracks the last direction.   *)
(*                                                                         *)
(* Python's None is the string "None"; the booleans of _attr_is_closed are *)
(* the strings "True" and "False", so that the three values of the field   *)
(* are comparable.  A hub operation is an operator that takes the outcome  *)
(* of each network exchange it performs and returns what the caller sees:  *)
(* whether an exception propagated (raised), the requests it put on the    *)
(* network (sent) and whether the transport reported failure (failed).     *)
(***************************************************************************)
EXTENDS Integers, Sequences, FiniteSets, TLC

VARIABLES
    \* FellerZeptrionBlind: the entity's fields, the requests its operations
    \* have put on the network, the operation that returned last and the
    \* operation that last assigned the tracked state
    channel_id, previous_action, is_closed, requests, lastOp, lastAssign,
    \* a direct call of a hub facade operation: its arguments and its result
    hub_call,
    \* turn_light_on / turn_light_off in progress: the position in the
    \* coroutine, the call's arguments, and the start and completion events
    \* of its requests in the order in which they happen
    light_pc, light_op, events,
    \* FellerZeptrionLight: the position in async_turn_on / async_turn_off /
    \* async_update, the entity's _state and the outcome of its last poll
    light_entity,
    \* the config entry's life cycle (__init__.py): the entry, its session and
    \* what setup stored for the platforms
    entry,
    \* MyHubConfigFlow: the flow's fields and the result of its last step
    flow,
    \* concurrent cover handlers of the one blind entity, each suspended at
    \* its hub call or not
    tasks

coverVars == <<channel_id, previous_action, is_closed, requests, lastOp, lastAssign>>
lightVars == <<light_pc, light_op, events>>

extVars == <<light_entity, entry, flow, tasks>>

vars == <<channel_id, previous_action, is_closed, requests, lastOp, lastAssign,
          hub_call, light_pc, light_op, events, light_entity, entry, flow, tasks>>

----------------------------------------------------------------------------
(* Bounds *)

\* Requests a behaviour may put on the network before the model stops.
MaxRequests == 3

\* Channel ids a blind entity may be constructed with.
Channels == {"1", "2"}

----------------------------------------------------------------------------
(* hub.py constants *)

None == "None"

COMMAND_ON == "on"
COMMAND_OFF == "off"
COMMAND_DIM_UP == "dim_up_200"
COMMAND_DIM_DOWN == "dim_down_200"
COMMAND_TOGGLE == "toggle"

CHANNEL_DESCRIPTION_ENDPOINT == "/zrap/chdes"
CHANNEL_STATES_ENDPOINT == "/zrap/chscan"
SEND_COMMAND_ENDPOINT == "/zrap/chctrl"
CHANNEL_NOTIFY_ENDPOINT == "/zrap/chnotify"
NETWORK_INFO_ENDPOINT == "/zrap/net"
DEVICE_INFO_ENDPOINT == "/zrap/id"

----------------------------------------------------------------------------
(* Network outcomes and response bodies *)

\* A response body, or the absence of one.
NoBody == [kind |-> "None"]
MalformedBody == [kind |-> "malformed"]
AckBody == [kind |-> "text"]

\* What one exchange with the hub can do: answer with a status and a body,
\* or fault anywhere inside the `async with` block (connecting, reading the
\* status, reading the body).
Response(status, body) == [kind |-> "response", status |-> status, body |-> body]
Fault(exc) == [kind |-> "fault", exc |-> exc, body |-> NoBody]

Statuses == {200, 302, 404, 500}
Faults == {"ClientError", "TimeoutError", "Exception"}

CommandOutcomes ==
    {Response(s, AckBody) : s \in Statuses} \cup {Fault(e) : e \in Faults}

----------------------------------------------------------------------------
(* Transport: FellerZeptrionHub.__make_request *)

Request(method, endpoint, data) ==
    [method |-> method, endpoint |-> endpoint, data |-> data]

\* Statuses that __make_request treats as success.
SuccessStatuses == {200, 302}

make_request_only200(method, endpoint, data, outcome) ==
    [raised |-> FALSE,
     sent   |-> <<Request(method, endpoint, data)>>,
     value  |-> IF outcome.kind = "response" /\ outcome.status = 200
                THEN outcome.body ELSE NoBody]

make_request_propagates(method, endpoint, data, outcome) ==
    [raised |-> outcome.kind = "fault",
     sent   |-> <<Request(method, endpoint, data)>>,
     value  |-> IF outcome.kind = "response" /\ outcome.status \in SuccessStatuses
                THEN outcome.body ELSE NoBody]

make_request(method, endpoint, data, outcome) ==
    [raised |-> FALSE,
     sent   |-> <<Request(method, endpoint, data)>>,
     value  |-> IF outcome.kind = "response"
                THEN IF outcome.status \in SuccessStatuses
                     THEN outcome.body
                     ELSE NoBody
                ELSE NoBody]

\* data = {f"cmd{channel}": command}
encode_command(channel, command) == {<<"cmd" \o channel, command>>}

\* __send_command awaits the transport and discards its result.
send_command(channel, command, outcome) ==
    LET r == make_request("POST", SEND_COMMAND_ENDPOINT,
                          encode_command(channel, command), outcome)
    IN  [raised |-> r.raised, sent |-> r.sent, failed |-> r.value = NoBody]

----------------------------------------------------------------------------
(* Hub facade: blind commands *)

blind_open(channel, outcome) == send_command(channel, COMMAND_ON, outcome)

blind_close(channel, outcome) == send_command(channel, COMMAND_OFF, outcome)

blind_stop_same_direction(channel, prev, outcome) ==
    IF prev = "open"
    THEN blind_open(channel, outcome)
    ELSE blind_close(channel, outcome)

blind_stop(channel, prev, outcome) ==
    IF prev = "open"
    THEN blind_close(channel, outcome)
    ELSE blind_open(channel, outcome)

blind_open_tilt(channel, outcome) == send_command(channel, COMMAND_DIM_UP, outcome)

blind_close_tilt_dims_up(channel, outcome) == send_command(channel, COMMAND_DIM_UP, outcome)

blind_close_tilt(channel, outcome) == send_command(channel, COMMAND_DIM_DOWN, outcome)

blind_toggle(channel, outcome) == send_command(channel, COMMAND_ON, outcome)

----------------------------------------------------------------------------
(* XML documents as xml.etree.ElementTree presents them *)

\* Longest element text in a generated document.
MaxTextLen == 2

\* Characters an element text is made of.
Chars == {"0", "1", "2", "-", " ", "a"}

\* Element.text: None for an element without text, else the characters.
NoText == [some |-> FALSE]
Text(chars) == [some |-> TRUE, chars |-> chars]

Element(tag, text, children) == [tag |-> tag, text |-> text, children |-> children]

NoElement == [some |-> FALSE]
SomeElement(e) == [some |-> TRUE, elem |-> e]

XmlBody(root) == [kind |-> "xml", root |-> root]

\* StdET.fromstring: the root of a well-formed document; ParseError for text
\* that is not well-formed XML; TypeError when handed None instead of text.
fromstring(body) ==
    CASE body.kind = "xml"  -> [raised |-> FALSE, exc |-> None, root |-> body.root]
      [] body.kind = "None" -> [raised |-> TRUE, exc |-> "TypeError"]
      [] OTHER              -> [raised |-> TRUE, exc |-> "ParseError"]

\* Element.find(tag): the first direct child with that tag, or None.
find(element, tag) ==
    LET idx == {i \in 1..Len(element.children) : element.children[i].tag = tag}
    IN  IF idx = {}
        THEN NoElement
        ELSE SomeElement(element.children[CHOOSE i \in idx : \A j \in idx : i <= j])

IsSpace(c) == c = " "

RECURSIVE lstrip(_)
lstrip(chars) ==
    IF chars /= <<>> /\ IsSpace(Head(chars)) THEN lstrip(Tail(chars)) ELSE chars

RECURSIVE rstrip(_)
rstrip(chars) ==
    IF chars /= <<>> /\ IsSpace(chars[Len(chars)])
    THEN rstrip(SubSeq(chars, 1, Len(chars) - 1))
    ELSE chars

\* str.strip()
strip(chars) == rstrip(lstrip(chars))

\* safe_find_text: the stripped text of the first child with that tag, or the
\* default when the element, the child or its text is missing.
safe_find_text(element, tag, default) ==
    LET found == IF element.some THEN find(element.elem, tag) ELSE NoElement
    IN  IF found.some /\ found.elem.text.some /\ found.elem.text.chars /= <<>>
        THEN Text(strip(found.elem.text.chars))
        ELSE default

DigitValue == [c \in {"0", "1", "2", "3", "4", "5", "6", "7", "8", "9"} |->
                 CASE c = "0" -> 0 [] c = "1" -> 1 [] c = "2" -> 2 [] c = "3" -> 3
                   [] c = "4" -> 4 [] c = "5" -> 5 [] c = "6" -> 6 [] c = "7" -> 7
                   [] c = "8" -> 8 [] c = "9" -> 9]

RECURSIVE digits_value(_)
digits_value(chars) ==
    IF chars = <<>> THEN 0
    ELSE 10 * digits_value(SubSeq(chars, 1, Len(chars) - 1))
         + DigitValue[chars[Len(chars)]]

\* int(str): surrounding whitespace is ignored, then an optional sign and at
\* least one decimal digit; anything else is a ValueError.
int(chars) ==
    LET t == strip(chars)
        signed == t /= <<>> /\ Head(t) \in {"-", "+"}
        d == IF signed THEN Tail(t) ELSE t
    IN  IF d /= <<>> /\ \A i \in 1..Len(d) : d[i] \in DOMAIN DigitValue
        THEN [raised |-> FALSE, exc |-> None,
              value |-> IF signed /\ Head(t) = "-"
                        THEN 0 - digits_value(d) ELSE digits_value(d)]
        ELSE [raised |-> TRUE, exc |-> "ValueError"]

\* parse_channel_state: the <val> text of the element ch{channel}; None when
\* the document does not parse; any other exception of fromstring propagates.
parse_channel_state(channel, channel_states) ==
    LET states == fromstring(channel_states)
    IN  IF states.raised
        THEN IF states.exc = "ParseError"
             THEN [raised |-> FALSE, exc |-> None, value |-> NoText]
             ELSE [raised |-> TRUE, exc |-> states.exc]
        ELSE [raised |-> FALSE, exc |-> None,
              value |-> safe_find_text(find(states.root, "ch" \o channel), "val", NoText)]

----------------------------------------------------------------------------
(* Hub facade: fetches and the light state *)

fetch_channel_description(outcome) ==
    make_request("GET", CHANNEL_DESCRIPTION_ENDPOINT, {}, outcome)

fetch_channel_states(outcome) ==
    make_request("GET", CHANNEL_STATES_ENDPOINT, {}, outcome)

await_update(outcome) ==
    make_request("GET", CHANNEL_NOTIFY_ENDPOINT, {}, outcome)

fetch_network_info(outcome) ==
    make_request("GET", NETWORK_INFO_ENDPOINT, {}, outcome)

fetch_device_info(outcome) ==
    make_request("GET", DEVICE_INFO_ENDPOINT, {}, outcome)

\* get_light_state: "True"/"False", or the exception that leaves it.
get_light_state(channel, outcome) ==
    LET r == fetch_channel_states(outcome)
        state == parse_channel_state(channel, r.value)
    IN  IF r.raised
        THEN [raised |-> TRUE, exc |-> "Exception", sent |-> r.sent]
        ELSE IF state.raised
        THEN [raised |-> TRUE, exc |-> state.exc, sent |-> r.sent]
        ELSE IF ~state.value.some
        THEN [raised |-> FALSE, exc |-> None, sent |-> r.sent, value |-> "False"]
        ELSE LET i == int(state.value.chars)
             IN  IF i.raised
                 THEN [raised |-> FALSE, exc |-> None, sent |-> r.sent, value |-> "False"]
                 ELSE [raised |-> FALSE, exc |-> None, sent |-> r.sent,
                       value |-> IF i.value > 0 THEN "True" ELSE "False"]

----------------------------------------------------------------------------
(* Inputs: channel-state documents the hub may answer with *)

\* Every text of 1..MaxTextLen characters; ElementTree gives None, never "",
\* for an element without text.
Texts == {NoText} \cup
         {Text(cs) : cs \in UNION {[1..k -> Chars] : k \in 1..MaxTextLen}}

\* <ch{c}/> and <ch{c}><val>t</val></ch{c}>
ChannelElements(c) ==
    {Element("ch" \o c, NoText, <<>>)} \cup
    {Element("ch" \o c, NoText, <<Element("val", t, <<>>)>>) : t \in Texts}

OtherChannelOn(e) ==
    CHOOSE o \in {Element("ch" \o c, NoText, <<Element("val", Text(<<"1">>), <<>>)>>) :
                    c \in Channels} : o.tag /= e.tag

\* <zrap/>, <zrap>e</zrap>, and <zrap>o e</zrap> with o another channel that is on.
ScanRoots ==
    {Element("zrap", NoText, <<>>)} \cup
    UNION {{Element("zrap", NoText, <<e>>),
            Element("zrap", NoText, <<OtherChannelOn(e), e>>)} :
             e \in UNION {ChannelElements(c) : c \in Channels}}

ScanBodies == {MalformedBody} \cup {XmlBody(r) : r \in ScanRoots}

ScanOutcomes ==
    {Response(st, b) : st \in Statuses, b \in ScanBodies} \cup {Fault(e) : e \in Faults}

----------------------------------------------------------------------------
(* Hub facade: the remaining parsers *)

\* DeviceCategory
UNKNOWN == -1
LIGHT == 1
BLIND == 5

\* str(DeviceCategory.UNKNOWN): IntEnum formats as its integer value (the
\* behaviour of the Python versions Home Assistant runs on).
str_UNKNOWN == <<"-", "1">>

Unnamed == Text(<<"U", "n", "n", "a", "m", "e", "d">>)
Ungrouped == Text(<<"U", "n", "g", "r", "o", "u", "p", "e", "d">>)

\* channel_names: None, or a dict from "Channel {id} Name" to a name.
NoNames == [some |-> FALSE]
Names(map) == [some |-> TRUE, map |-> map]

\* channel.tag.replace("ch", "") for the tags ch{id}; another tag has no
\* "ch" to remove.
tag_id(tag) ==
    IF \E c \in Channels : tag = "ch" \o c
    THEN CHOOSE c \in Channels : tag = "ch" \o c
    ELSE tag

\* channels[channel.tag] = {...}
dict_set(d, key, value) ==
    [k \in DOMAIN d \cup {key} |-> IF k = key THEN value ELSE d[k]]

\* name = channel_names.get(key) if channel_names and key in channel_names
\*        else self.safe_find_text(channel, "name", "Unnamed")
channel_name(channel, channel_names) ==
    LET key == "Channel " \o tag_id(channel.tag) \o " Name"
    IN  IF channel_names.some /\ DOMAIN channel_names.map /= {}
           /\ key \in DOMAIN channel_names.map
        THEN channel_names.map[key]
        ELSE safe_find_text(SomeElement(channel), "name", Unnamed)

\* The loop of parse_channel_descriptions over the root's children, in
\* document order; a ValueError of int() leaves the loop and the function.
RECURSIVE parse_channels(_, _, _)
parse_channels(children, channel_names, channels) ==
    IF children = <<>>
    THEN [raised |-> FALSE, exc |-> None, value |-> channels]
    ELSE LET channel == Head(children)
             cat == int(safe_find_text(SomeElement(channel), "cat", Text(str_UNKNOWN)).chars)
         IN  IF cat.raised
             THEN [raised |-> TRUE, exc |-> cat.exc]
             ELSE IF cat.value = UNKNOWN
             THEN parse_channels(Tail(children), channel_names, channels)
             ELSE parse_channels(Tail(children), channel_names,
                      dict_set(channels, channel.tag,
                               [id |-> tag_id(channel.tag),
                                name |-> channel_name(channel, channel_names),
                                group |-> safe_find_text(SomeElement(channel), "group", Ungrouped),
                                category |-> cat.value]))

parse_channel_descriptions_propagates(xml_data, channel_names) ==
    LET raw_channels == fromstring(xml_data)
    IN  IF raw_channels.raised
        THEN [raised |-> TRUE, exc |-> raw_channels.exc]
        ELSE parse_channels(raw_channels.root.children, channel_names, <<>>)

\* parse_channel_descriptions: the dict of the channels whose category is
\* known; empty when the document does not parse; any exception other than
\* ParseError propagates.
parse_channel_descriptions(xml_data, channel_names) ==
    LET raw_channels == fromstring(xml_data)
    IN  IF raw_channels.raised
        THEN IF raw_channels.exc = "ParseError"
             THEN [raised |-> FALSE, exc |-> None, value |-> <<>>]
             ELSE [raised |-> TRUE, exc |-> raw_channels.exc]
        ELSE parse_channels(raw_channels.root.children, channel_names, <<>>)

\* A parser's None, and its dict.
NoInfo == [some |-> FALSE]
Info(fields) == [some |-> TRUE, fields |-> fields]

\* parse_device_info
parse_device_info(device_info) ==
    LET info == fromstring(device_info)
    IN  IF info.raised
        THEN IF info.exc = "ParseError"
             THEN [raised |-> FALSE, exc |-> None, value |-> NoInfo]
             ELSE [raised |-> TRUE, exc |-> info.exc]
        ELSE [raised |-> FALSE, exc |-> None,
              value |-> Info([hardware_version |-> safe_find_text(SomeElement(info.root), "hw", NoText),
                              serial_number |-> safe_find_text(SomeElement(info.root), "sn", NoText),
                              type |-> safe_find_text(SomeElement(info.root), "type", NoText),
                              software_version |-> safe_find_text(SomeElement(info.root), "sw", NoText)])]

\* parse_network_info
parse_network_info(network_info) ==
    LET network == fromstring(network_info)
    IN  IF network.raised
        THEN IF network.exc = "ParseError"
             THEN [raised |-> FALSE, exc |-> None, value |-> NoInfo]
             ELSE [raised |-> TRUE, exc |-> network.exc]
        ELSE [raised |-> FALSE, exc |-> None,
              value |-> Info([mac |-> safe_find_text(SomeElement(network.root), "mac", NoText)])]

----------------------------------------------------------------------------
(* Hub facade: the reads of the hub's descriptions *)

\* What a get_* call hands back: None when the fetch gave no body, else
\* what the parser made of the body; an exception of the parser leaves
\* the call.
get_parsed(data, parsed) ==
    IF data.value = NoBody
    THEN [raised |-> FALSE, exc |-> None, sent |-> data.sent, value |-> NoInfo]
    ELSE IF parsed.raised
    THEN [raised |-> TRUE, exc |-> parsed.exc, sent |-> data.sent]
    ELSE [raised |-> FALSE, exc |-> None, sent |-> data.sent, value |-> parsed.value]

\* get_channel_descriptions: None, or the dict of the channels.
get_channel_descriptions(channel_names, outcome) ==
    LET data == fetch_channel_description(outcome)
        parsed == parse_channel_descriptions(data.value, channel_names)
    IN  get_parsed(data, IF parsed.raised THEN parsed
                         ELSE [parsed EXCEPT !.value = Info(parsed.value)])

get_network_info(outcome) ==
    LET data == fetch_network_info(outcome)
    IN  get_parsed(data, parse_network_info(data.value))

get_device_info(outcome) ==
    LET data == fetch_device_info(outcome)
    IN  get_parsed(data, parse_device_info(data.value))

----------------------------------------------------------------------------
(* Inputs: channel-description and info documents *)

Maybe(tag, texts) == {<<>>} \cup {<<Element(tag, t, <<>>)>> : t \in texts}

\* <ch{c}> with an optional <name>, an optional <group> and an optional
\* <cat> of any text.
DescriptionElements(c) ==
    {Element("ch" \o c, NoText, n \o g \o k) :
        n \in Maybe("name", {NoText, Text(<<"a">>)}),
        g \in Maybe("group", {Text(<<"a">>)}),
        k \in Maybe("cat", Texts)}

OtherBlind(e) ==
    CHOOSE o \in {Element("ch" \o c, NoText, <<Element("cat", Text(<<"5">>), <<>>)>>) :
                    c \in Channels} : o.tag /= e.tag

\* <zrap/>, one channel, and one channel before or after a blind with
\* another tag: the hub describes each channel once.
DescriptionRoots ==
    {Element("zrap", NoText, <<>>)} \cup
    UNION {{Element("zrap", NoText, <<e>>),
            Element("zrap", NoText, <<OtherBlind(e), e>>),
            Element("zrap", NoText, <<e, OtherBlind(e)>>)} :
             e \in UNION {DescriptionElements(c) : c \in Channels}}

NameOverrides ==
    {NoNames, Names(<<>>),
     Names([k \in {"host", "Channel 1 Name"} |-> Text(<<"x">>)])}

InfoRoots ==
    {Element("id", NoText, <<>>)} \cup
    {Element("id", NoText, <<Element(tag, t, <<>>)>>) :
        tag \in {"hw", "sn", "type", "sw", "mac"}, t \in Texts}

\* What a parser may be handed: no body, text that is no XML, a document.
ParserBodies(roots) == {NoBody, MalformedBody, AckBody} \cup {XmlBody(r) : r \in roots}

\* A hub that does not answer the request: an error status, or no
\* connection within the timeout.
Unreachable == {Response(404, AckBody), Fault("TimeoutError")}

\* What the hub may describe when an entry is set up: each channel with a
\* <cat> of a light, a blind, the unknown category, or no integer at all.
SetupRoots ==
    {Element("zrap", NoText, <<>>)} \cup
    {Element("zrap", NoText,
             <<Element("ch1", NoText, <<Element("cat", Text(cat["1"]), <<>>)>>),
               Element("ch2", NoText, <<Element("cat", Text(cat["2"]), <<>>)>>)>>) :
        cat \in [Channels -> {<<"1">>, <<"5">>, <<"-", "1">>, <<"a">>}]}

DescriptionOutcomes ==
    {Response(200, b) : b \in {MalformedBody} \cup {XmlBody(r) : r \in SetupRoots}}
    \cup Unreachable

NetworkRoots ==
    {Element("net", NoText, <<Element("mac", Text(<<"a">>), <<>>)>>)}

NetworkOutcomes ==
    {Response(200, b) : b \in {MalformedBody} \cup {XmlBody(r) : r \in NetworkRoots}}
    \cup Unreachable

\* What /zrap/chscan may answer while an entity polls its channel: the
\* channel on, off, with a value that is no integer, or not listed.
PollRoots ==
    {Element("zrap", NoText, <<>>)} \cup
    {Element("zrap", NoText,
             <<Element("ch" \o c, NoText, <<Element("val", Text(<<v>>), <<>>)>>)>>) :
        c \in Channels, v \in {"1", "0", "a"}}

PollOutcomes ==
    {Response(200, b) : b \in {MalformedBody} \cup {XmlBody(r) : r \in PollRoots}}
    \cup Unreachable

\* What /zrap/id may answer while the user's host is probed.
DeviceRoots ==
    {Element("id", NoText, <<>>)} \cup
    {Element("id", NoText, <<Element(tag, Text(<<"a">>), <<>>)>>) :
        tag \in {"hw", "sn", "type", "sw"}}

DeviceOutcomes ==
    {Response(200, b) : b \in {MalformedBody} \cup {XmlBody(r) : r \in DeviceRoots}}
    \cup Unreachable

\* The hosts a user may type.
Hosts == {"h1", "h2"}

\* entry.data: the host, and the names the user gave in the config flow.
EntryData ==
    {Names([k \in {"host", "Channel 1 Name"} |-> Text(<<"x">>)])}

----------------------------------------------------------------------------
(* Values of the variables before any hub call *)

NoCall == [op |-> "init"]

NoLightOp == [name |-> "init", channel |-> None, command |-> None]

\* FellerZeptrionLight.__init__: _state = None; nothing polled yet.
NoLightEntity == [pc |-> "idle", handler |-> None, is_on |-> None, poll |-> None]

PLATFORMS == {"cover", "light"}

\* No config entry has been set up: no session, nothing in hass.data, no
\* platform forwarded.
NoPlatforms == [p \in PLATFORMS |-> [state |-> "not_loaded", entities |-> {}]]
NoEntry == [state |-> "not_loaded", session |-> None, data |-> NoInfo,
            platforms |-> NoPlatforms]

\* MyHubConfigFlow.__init__: no device info, no channels, empty data; no
\* step has been run, no session created, no entry created.
NoLastStep == [name |-> "init"]
NoFlow == [step |-> "init", errors |-> None, device_info |-> NoInfo,
           channels |-> NoInfo, data |-> NoInfo, session |-> None,
           created |-> NoInfo, probed |-> {}, last |-> NoLastStep]

\* Concurrent handlers that may be started on the blind entity.
MaxTasks == 3

TaskIds == 1..MaxTasks

\* A handler not yet started: no operation, nothing captured or sent;
\* order is the place of its request among the requests the hub was sent.
NoTask == [op |-> None, pc |-> "idle", arg |-> None, sent |-> <<>>, failed |-> FALSE,
           order |-> 0]

NoTasks == [t \in TaskIds |-> NoTask]

----------------------------------------------------------------------------
(* Cover entity: FellerZeptrionBlind *)

NoAssign == [op |-> "init", failed |-> FALSE]

NoOp == [op |-> "init", prev |-> None, closed |-> None, last |-> NoAssign,
         sent |-> 0, failed |-> FALSE, raised |-> FALSE, wrote |-> 0,
         steps |-> <<>>]

\* The record of the operation that has just returned: the tracked state it
\* started from, the operation that last assigned that state (lastAssign),
\* the number of requests it sent, whether the transport reported failure,
\* whether the hub call raised, how many times it called
\* async_write_ha_state, and the order of what it did.
OpRecord(op, h, steps) ==
    [op |-> op, prev |-> previous_action, closed |-> is_closed,
     last |-> lastAssign, sent |-> Len(h.sent), failed |-> h.failed, raised |-> h.raised,
     wrote |-> Cardinality({i \in DOMAIN steps : steps[i] = "async_write_ha_state"}),
     steps |-> steps]

NoHubCall == [raised |-> FALSE, sent |-> <<>>, failed |-> FALSE]

\* What a handler does around its hub call, in order: the call is awaited
\* inside try, it returns or raises, and the state is written after the
\* try statement.
HubSteps(h) == <<"hub_call", IF h.raised THEN "hub_raised" ELSE "hub_returned">>

CoverCommand_writes_first(op, h, action, closed) ==
    /\ requests' = requests \o h.sent
    /\ IF h.raised
       THEN UNCHANGED <<previous_action, is_closed, lastAssign>>
       ELSE /\ previous_action' = action
            /\ is_closed' = closed
            /\ lastAssign' = [op |-> op, failed |-> h.failed]
    /\ lastOp' = OpRecord(op, h, <<"async_write_ha_state">> \o HubSteps(h))
    /\ UNCHANGED <<channel_id, hub_call, light_pc, light_op, events, extVars>>

\* The body shared by the handlers: await the hub call h; if it returned,
\* assign the tracked state; in both cases write the state.
CoverCommand(op, h, action, closed) ==
    /\ requests' = requests \o h.sent
    /\ IF h.raised
       THEN UNCHANGED <<previous_action, is_closed, lastAssign>>
       ELSE /\ previous_action' = action
            /\ is_closed' = closed
            /\ lastAssign' = [op |-> op, failed |-> h.failed]
    /\ lastOp' = OpRecord(op, h, HubSteps(h) \o <<"async_write_ha_state">>)
    /\ UNCHANGED <<channel_id, hub_call, light_pc, light_op, events, extVars>>

\* An early return: nothing is sent, assigned or written.
CoverReturnEarly(op) ==
    /\ lastOp' = OpRecord(op, NoHubCall, <<"return">>)
    /\ UNCHANGED <<channel_id, previous_action, is_closed, requests, lastAssign>>
    /\ UNCHANGED <<hub_call, light_pc, light_op, events, extVars>>

async_open_cover(outcome) ==
    /\ Len(requests) < MaxRequests
    /\ CoverCommand("open", blind_open(channel_id, outcome), "open", "False")

async_close_cover(outcome) ==
    /\ Len(requests) < MaxRequests
    /\ CoverCommand("close", blind_close(channel_id, outcome), "close", "True")

async_stop_cover_unguarded(outcome) ==
    /\ Len(requests) < MaxRequests
    /\ CoverCommand("stop", blind_stop(channel_id, previous_action, outcome),
                    None, "False")

async_stop_cover_keeps_direction(outcome) ==
    /\ Len(requests) < MaxRequests
    /\ IF previous_action = None
       THEN CoverReturnEarly("stop")
       ELSE CoverCommand("stop", blind_stop(channel_id, previous_action, outcome),
                         previous_action, "False")

async_stop_cover_keeps_closed(outcome) ==
    /\ Len(requests) < MaxRequests
    /\ IF previous_action = None
       THEN CoverReturnEarly("stop")
       ELSE CoverCommand("stop", blind_stop(channel_id, previous_action, outcome),
                         None, is_closed)

async_stop_cover(outcome) ==
    /\ Len(requests) < MaxRequests
    /\ IF previous_action = None
       THEN CoverReturnEarly("stop")
       ELSE CoverCommand("stop", blind_stop(channel_id, previous_action, outcome),
                         None, "False")

async_open_cover_tilt(outcome) ==
    /\ Len(requests) < MaxRequests
    /\ CoverCommand("open_tilt", blind_open_tilt(channel_id, outcome), None, "False")

async_close_cover_tilt_keeps_direction(outcome) ==
    /\ Len(requests) < MaxRequests
    /\ IF previous_action = "close"
       THEN CoverReturnEarly("close_tilt")
       ELSE CoverCommand("close_tilt", blind_close_tilt(channel_id, outcome),
                         previous_action, "False")

async_close_cover_tilt(outcome) ==
    /\ Len(requests) < MaxRequests
    /\ IF previous_action = "close"
       THEN CoverReturnEarly("close_tilt")
       ELSE CoverCommand("close_tilt", blind_close_tilt(channel_id, outcome),
                         None, "False")

toggle(outcome) ==
    /\ Len(requests) < MaxRequests
    /\ CoverCommand("toggle", blind_toggle(channel_id, outcome), None, "False")

\* FellerZeptrionBlind.__init__
Init ==
    /\ channel_id \in Channels
    /\ previous_action = None
    /\ is_closed = None
    /\ requests = <<>>
    /\ lastOp = NoOp
    /\ lastAssign = NoAssign
    /\ hub_call = NoCall
    /\ light_pc = "idle"
    /\ light_op = NoLightOp
    /\ events = <<>>
    /\ light_entity = NoLightEntity
    /\ entry = NoEntry
    /\ flow = NoFlow
    /\ tasks = NoTasks

Next ==
    \/ \E o \in CommandOutcomes : async_open_cover(o)
    \/ \E o \in CommandOutcomes : async_close_cover(o)
    \/ \E o \in CommandOutcomes : async_stop_cover(o)
    \/ \E o \in CommandOutcomes : async_open_cover_tilt(o)
    \/ \E o \in CommandOutcomes : async_close_cover_tilt(o)
    \/ \E o \in CommandOutcomes : toggle(o)

Spec == Init /\ [][Next]_vars

----------------------------------------------------------------------------
(* The config entry: async_setup_entry and async_unload_entry of the       *)
(* integration, the platforms' async_setup_entry, and the blind entity's   *)
(* handlers while its platform is loaded.                                  *)

\* The platforms' category: cover.py keeps category 5, light.py category 1.
PlatformCategory == [p \in PLATFORMS |-> IF p = "cover" THEN BLIND ELSE LIGHT]

\* A platform's async_setup_entry: one entity for each channel of its
\* category.  channels.items() raises on None, and an entity's
\* network_info['mac'] raises on None.
platform_setup_entry(platform, data) ==
    IF ~data.channels.some
    THEN [raised |-> TRUE, exc |-> "AttributeError", entities |-> {}]
    ELSE LET channels == data.channels.fields
             mine == {ch_name \in DOMAIN channels :
                         channels[ch_name].category = PlatformCategory[platform]}
         IN  IF mine /= {} /\ ~data.network.some
             THEN [raised |-> TRUE, exc |-> "TypeError", entities |-> {}]
             ELSE [raised |-> FALSE, exc |-> None,
                   entities |-> {channels[ch_name].id : ch_name \in mine}]

\* async_forward_entry_setups: a platform whose setup raises is logged and
\* left without entities.
forward_entry_setups(data) ==
    [p \in PLATFORMS |->
        LET r == platform_setup_entry(p, data)
        IN  [state |-> IF r.raised THEN "setup_error" ELSE "loaded",
             entities |-> r.entities]]

\* async_setup_entry: a new session; the descriptions and the network
\* record are read and stored, then the platforms are set up.  An
\* exception of get_channel_descriptions leaves the handler with the
\* session created and nothing stored.
async_setup_entry(entry_data, description, network) ==
    /\ entry.state = "not_loaded"
    /\ LET channels == get_channel_descriptions(entry_data, description)
           net == get_network_info(network)
       IN  IF channels.raised
           THEN entry' = [entry EXCEPT !.state = "setup_error", !.session = "open"]
           ELSE LET data == [channels |-> channels.value, network |-> net.value]
                IN  entry' = [state |-> "loaded", session |-> "open",
                              data |-> Info(data),
                              platforms |-> forward_entry_setups(data)]
    /\ UNCHANGED <<coverVars, hub_call, lightVars, light_entity, flow, tasks>>

\* async_unload_platforms: a platform that unloads loses its entities.
unload_platforms(platforms, unloaded) ==
    [p \in PLATFORMS |->
        IF unloaded[p] THEN [state |-> "not_loaded", entities |-> {}]
        ELSE platforms[p]]

async_unload_entry_always_closes(unloaded) ==
    /\ entry.state = "loaded"
    /\ LET unload_ok == \A p \in PLATFORMS : unloaded[p]
       IN  entry' = [state |-> IF unload_ok THEN "unloaded" ELSE "failed_unload",
                     session |-> "closed",
                     data |-> IF unload_ok THEN NoInfo ELSE entry.data,
                     platforms |-> unload_platforms(entry.platforms, unloaded)]
    /\ UNCHANGED <<coverVars, hub_call, lightVars, light_entity, flow, tasks>>

\* async_unload_entry: the session is closed and the entry's data dropped
\* if every platform unloaded; unload_ok is returned.
async_unload_entry(unloaded) ==
    /\ entry.state = "loaded"
    /\ LET unload_ok == \A p \in PLATFORMS : unloaded[p]
       IN  IF unload_ok
           THEN entry' = [state |-> "unloaded", session |-> "closed",
                          data |-> NoInfo,
                          platforms |-> unload_platforms(entry.platforms, unloaded)]
           ELSE entry' = [entry EXCEPT
                            !.state = "failed_unload",
                            !.platforms = unload_platforms(entry.platforms, unloaded)]
    /\ UNCHANGED <<coverVars, hub_call, lightVars, light_entity, flow, tasks>>

\* The blind entity of channel_id exists while the cover platform holds it.
BlindEntityLoaded == channel_id \in entry.platforms["cover"].entities

NextEntry ==
    \/ \E d \in EntryData, o \in DescriptionOutcomes, n \in NetworkOutcomes :
          async_setup_entry(d, o, n)
    \/ \E u \in [PLATFORMS -> BOOLEAN] : async_unload_entry(u)
    \/ BlindEntityLoaded /\ Next

SpecEntry == Init /\ [][NextEntry]_vars

----------------------------------------------------------------------------
(* Concurrent handlers of one blind entity.  A handler runs without        *)
(* interruption up to the request of its hub call, is suspended while the  *)
(* hub answers, and runs without interruption from the answer to its       *)
(* return; other handlers run while it is suspended.                       *)

ConcurrentOps == {"open", "close", "stop"}

\* The hub call of a handler: stop passes the direction it read.
TaskHubCall(op, arg, outcome) ==
    IF op = "open" THEN blind_open(channel_id, outcome)
    ELSE IF op = "close" THEN blind_close(channel_id, outcome)
    ELSE blind_stop(channel_id, arg, outcome)

\* What a handler assigns after its hub call has returned.
TaskAssigns(op) ==
    IF op = "open" THEN [previous_action |-> "open", is_closed |-> "False"]
    ELSE IF op = "close" THEN [previous_action |-> "close", is_closed |-> "True"]
    ELSE [previous_action |-> None, is_closed |-> "False"]

\* The handler starts: async_stop_cover returns at once if previous_action
\* is None; otherwise the handler reads what its hub call needs and the
\* request goes out.
CoverStart(t, op) ==
    /\ tasks[t].pc = "idle"
    /\ Len(requests) < MaxRequests
    /\ IF op = "stop" /\ previous_action = None
       THEN /\ tasks' = [tasks EXCEPT ![t] = [NoTask EXCEPT !.op = op, !.pc = "returned"]]
            /\ UNCHANGED requests
       ELSE LET h == TaskHubCall(op, previous_action, Fault("Exception"))
            IN  /\ tasks' = [tasks EXCEPT ![t] = [op |-> op, pc |-> "awaiting",
                                                   arg |-> previous_action,
                                                   sent |-> h.sent, failed |-> FALSE,
                                                   order |-> Len(requests) + 1]]
                /\ requests' = requests \o h.sent
    /\ UNCHANGED <<channel_id, previous_action, is_closed, lastOp, lastAssign>>
    /\ UNCHANGED <<hub_call, lightVars, light_entity, entry, flow>>

\* The hub has answered: the hub call returns, the handler assigns the
\* tracked state, writes the state and returns.
CoverFinish(t, outcome) ==
    /\ tasks[t].pc = "awaiting"
    /\ LET h == TaskHubCall(tasks[t].op, tasks[t].arg, outcome)
           a == TaskAssigns(tasks[t].op)
       IN  /\ tasks' = [tasks EXCEPT ![t].pc = "returned", ![t].failed = h.failed]
           /\ previous_action' = a.previous_action
           /\ is_closed' = a.is_closed
           /\ lastAssign' = [op |-> tasks[t].op, failed |-> h.failed]
    /\ UNCHANGED <<channel_id, requests, lastOp>>
    /\ UNCHANGED <<hub_call, lightVars, light_entity, entry, flow>>

NextConcurrent ==
    \/ \E t \in TaskIds, op \in ConcurrentOps : CoverStart(t, op)
    \/ \E t \in TaskIds, o \in CommandOutcomes : CoverFinish(t, o)

SpecConcurrent == Init /\ [][NextConcurrent]_vars

----------------------------------------------------------------------------
(* The config flow: MyHubConfigFlow *)

CANNOT_CONNECT == "Could not connect to Feller Zeptrion Hub"
NO_CHANNELS == "Zeptrion hub has no configured channels"

\* get_channel_schema: None if the device info or the channels are None or
\* empty; else the keys of the form, one for the hub's name and one for
\* each channel.
get_channel_schema(device_info, channels) ==
    IF ~device_info.some \/ ~channels.some \/ DOMAIN channels.fields = {}
    THEN [some |-> FALSE]
    ELSE [some |-> TRUE,
          keys |-> {"Hub Name"} \cup
                   {"Channel " \o channels.fields[ch].id \o " Name" :
                        ch \in {c \in DOMAIN channels.fields :
                                   channels.fields[c].category /= UNKNOWN}}]

\* async_step_channels(None), as async_step_user calls it: the channels
\* form, or an abort if there is no schema.
show_channels(f) ==
    IF get_channel_schema(f.device_info, f.channels).some
    THEN [f EXCEPT !.step = "channels", !.errors = None]
    ELSE [f EXCEPT !.step = "abort"]

\* What the last run of async_step_user was given and what it read:
\* whether a read raised, whether each read returned a value, and how many
\* channels were parsed.
UserStep(host, raised, channels, device_info) ==
    [name |-> "user", host |-> host, raised |-> raised,
     channels |-> channels.some, device_info |-> device_info.some,
     parsed |-> IF channels.some THEN Cardinality(DOMAIN channels.fields) ELSE 0]

\* async_step_user without input: the empty user form.
async_step_user_form ==
    /\ flow.step = "init"
    /\ flow' = [flow EXCEPT !.step = "user", !.errors = None]
    /\ UNCHANGED <<coverVars, hub_call, lightVars, light_entity, entry, tasks>>

\* async_step_user with a host: the hub is probed on a session of its own.
\* An exception of get_channel_descriptions leaves the handler before the
\* session is closed.
async_step_user(host, description, device) ==
    /\ flow.step = "user"
    /\ LET channels == get_channel_descriptions(NoNames, description)
           device_info == get_device_info(device)
       IN  IF channels.raised
           THEN flow' = [flow EXCEPT !.step = "raised", !.session = "open",
                                     !.last = UserStep(host, TRUE, NoInfo, NoInfo)]
           ELSE LET last == UserStep(host, FALSE, channels.value, device_info.value)
                    closed == [flow EXCEPT !.session = "closed", !.last = last]
                IN  IF ~channels.value.some \/ ~device_info.value.some
                    THEN flow' = [closed EXCEPT !.errors = CANNOT_CONNECT]
                    ELSE LET set == [closed EXCEPT !.channels = channels.value,
                                                  !.device_info = device_info.value]
                         IN  IF ~get_channel_schema(set.device_info, set.channels).some
                             THEN flow' = [set EXCEPT !.errors = NO_CHANNELS]
                             ELSE flow' = show_channels(
                                      [set EXCEPT !.data = Info([k \in {"host"} |-> host]),
                                                  !.probed = @ \cup {host}])
    /\ UNCHANGED <<coverVars, hub_call, lightVars, light_entity, entry, tasks>>

\* {**self._data, **user_input}
dict_merge(a, b) ==
    [k \in DOMAIN a \cup DOMAIN b |-> IF k \in DOMAIN b THEN b[k] ELSE a[k]]

\* async_step_channels with the user's names: the entry is created from
\* the stored host and the names.
async_step_channels(user_input) ==
    /\ flow.step = "channels"
    /\ flow' = [flow EXCEPT
                  !.step = "created",
                  !.created = Info([title |-> user_input["Hub Name"],
                                    data |-> dict_merge(flow.data.fields, user_input)]),
                  !.last = [name |-> "channels"]]
    /\ UNCHANGED <<coverVars, hub_call, lightVars, light_entity, entry, tasks>>

\* What the user may fill into the channels form.
ChannelInputs(keys) == [keys -> {"x", "y"}]

NextFlow ==
    \/ async_step_user_form
    \/ \E h \in Hosts, o \in DescriptionOutcomes, d \in DeviceOutcomes :
          async_step_user(h, o, d)
    \/ /\ flow.step = "channels"
       /\ \E u \in ChannelInputs(get_channel_schema(flow.device_info, flow.channels).keys) :
             async_step_channels(u)

SpecFlow == Init /\ [][NextFlow]_vars

----------------------------------------------------------------------------
(* Direct calls of the hub facade.  The hub keeps no state between calls:  *)
(* each call is applied to its arguments and to the outcome of its request *)
(* and its result is kept until the caller takes it.                       *)

HubIdle == hub_call.op = "init"

HubCall(op, channel, arg, outcome, result) ==
    /\ hub_call' = [op |-> op, channel |-> channel, arg |-> arg,
                    outcome |-> outcome, result |-> result]
    /\ UNCHANGED <<coverVars, lightVars, extVars>>

CallBlindStop ==
    /\ HubIdle
    /\ \E c \in Channels, d \in {None, "open", "close"}, o \in CommandOutcomes :
          HubCall("blind_stop", c, d, o, blind_stop(c, d, o))

CallGetLightState ==
    /\ HubIdle
    /\ \E c \in Channels, o \in ScanOutcomes :
          HubCall("get_light_state", c, None, o, get_light_state(c, o))

CallFetchChannelDescription ==
    /\ HubIdle
    /\ \E o \in ScanOutcomes :
          HubCall("request", None, None, o, fetch_channel_description(o))

CallFetchChannelStates ==
    /\ HubIdle
    /\ \E o \in ScanOutcomes :
          HubCall("request", None, None, o, fetch_channel_states(o))

CallFetchNetworkInfo ==
    /\ HubIdle
    /\ \E o \in ScanOutcomes :
          HubCall("request", None, None, o, fetch_network_info(o))

CallFetchDeviceInfo ==
    /\ HubIdle
    /\ \E o \in ScanOutcomes :
          HubCall("request", None, None, o, fetch_device_info(o))

\* A parser is applied to a body it is handed; no request is made.
ParserCall(op, channel, xml_data, channel_names, result) ==
    /\ hub_call' = [op |-> op, channel |-> channel, xml |-> xml_data,
                    names |-> channel_names, result |-> result]
    /\ UNCHANGED <<coverVars, lightVars, extVars>>

CallParseChannelDescriptions ==
    /\ HubIdle
    /\ \E b \in ParserBodies(DescriptionRoots), n \in NameOverrides :
          ParserCall("parse_channel_descriptions", None, b, n,
                     parse_channel_descriptions(b, n))

CallParseChannelState ==
    /\ HubIdle
    /\ \E c \in Channels, b \in ParserBodies(ScanRoots) :
          ParserCall("parse_channel_state", c, b, NoNames, parse_channel_state(c, b))

CallParseDeviceInfo ==
    /\ HubIdle
    /\ \E b \in ParserBodies(InfoRoots) :
          ParserCall("parse_device_info", None, b, NoNames, parse_device_info(b))

CallParseNetworkInfo ==
    /\ HubIdle
    /\ \E b \in ParserBodies(InfoRoots) :
          ParserCall("parse_network_info", None, b, NoNames, parse_network_info(b))

\* The caller has taken the result; the hub is ready for the next call.
HubReturn ==
    /\ ~HubIdle
    /\ hub_call' = NoCall
    /\ UNCHANGED <<coverVars, lightVars, extVars>>

NextHub ==
    \/ CallBlindStop
    \/ CallGetLightState
    \/ CallFetchChannelDescription
    \/ CallFetchChannelStates
    \/ CallFetchNetworkInfo
    \/ CallFetchDeviceInfo
    \/ CallParseChannelDescriptions
    \/ CallParseChannelState
    \/ CallParseDeviceInfo
    \/ CallParseNetworkInfo
    \/ HubReturn

SpecHub == Init /\ [][NextHub]_vars

----------------------------------------------------------------------------
(* turn_light_on / turn_light_off, one step per suspension point.  Calling *)
(* __await_update() creates a coroutine object; a coroutine runs only when *)
(* it is awaited, so its request starts at `await update`.                 *)

StartEvent(request) == [ev |-> "start", request |-> request]
EndEvent(request, outcome) == [ev |-> "end", request |-> request, outcome |-> outcome]

\* The hub operation is entered: nothing has been requested yet.
TurnLightEnter(name, channel, command) ==
    /\ light_pc \in {"idle", "returned", "raised"}
    /\ light_op' = [name |-> name, channel |-> channel, command |-> command]
    /\ events' = <<>>
    /\ light_pc' = "send_command"

TurnLightCall(name, channel, command) ==
    /\ TurnLightEnter(name, channel, command)
    /\ UNCHANGED <<coverVars, hub_call, extVars>>

\* update = self.__await_update()
turn_light_on(channel) == TurnLightCall("turn_light_on", channel, COMMAND_ON)

turn_light_off(channel) == TurnLightCall("turn_light_off", channel, COMMAND_OFF)

\* await self.__send_command(channel, command): the request goes out ...
SendCommandStart ==
    /\ light_pc = "send_command"
    /\ \E o \in CommandOutcomes :
          events' = Append(events,
              StartEvent(send_command(light_op.channel, light_op.command, o).sent[1]))
    /\ light_pc' = "send_command_wait"
    /\ UNCHANGED <<coverVars, hub_call, light_op, extVars>>

\* ... and the exchange completes.
SendCommandDone(outcome) ==
    /\ light_pc = "send_command_wait"
    /\ LET r == send_command(light_op.channel, light_op.command, outcome)
       IN  /\ events' = Append(events, EndEvent(r.sent[1], outcome))
           /\ light_pc' = IF r.raised THEN "raised" ELSE "await_update"
    /\ UNCHANGED <<coverVars, hub_call, light_op, extVars>>

\* await update: the notification request goes out ...
AwaitUpdateStart ==
    /\ light_pc = "await_update"
    /\ \E o \in CommandOutcomes :
          events' = Append(events, StartEvent(await_update(o).sent[1]))
    /\ light_pc' = "await_update_wait"
    /\ UNCHANGED <<coverVars, hub_call, light_op, extVars>>

\* ... and completes; the operation returns.
AwaitUpdateDone(outcome) ==
    /\ light_pc = "await_update_wait"
    /\ LET r == await_update(outcome)
       IN  /\ events' = Append(events, EndEvent(r.sent[1], outcome))
           /\ light_pc' = IF r.raised THEN "raised" ELSE "returned"
    /\ UNCHANGED <<coverVars, hub_call, light_op, extVars>>

NextLight ==
    \/ \E c \in Channels : turn_light_on(c)
    \/ \E c \in Channels : turn_light_off(c)
    \/ SendCommandStart
    \/ \E o \in CommandOutcomes : SendCommandDone(o)
    \/ AwaitUpdateStart
    \/ \E o \in CommandOutcomes : AwaitUpdateDone(o)

SpecLight == Init /\ [][NextLight]_vars

----------------------------------------------------------------------------
(* The light entity: FellerZeptrionLight.async_turn_on, async_turn_off and *)
(* async_update, step by step.  The entity's channel is channel_id.  A     *)
(* handler awaits the hub's turn_light_on/off (the steps above), then      *)
(* async_update, then writes the state.                                    *)

\* What is kept of a poll: its request and what get_light_state gave.
PollEnd(request, result) == [ev |-> "end", request |-> request, result |-> result]
WriteEvent == [ev |-> "async_write_ha_state"]

\* The hub operation is awaited first.
LightCommand(handler, name, command) ==
    /\ light_entity.pc = "idle"
    /\ TurnLightEnter(name, channel_id, command)
    /\ light_entity' = [light_entity EXCEPT !.pc = "turn_light", !.handler = handler]
    /\ UNCHANGED <<coverVars, hub_call, entry, flow, tasks>>

async_turn_on == LightCommand("async_turn_on", "turn_light_on", COMMAND_ON)

async_turn_off == LightCommand("async_turn_off", "turn_light_off", COMMAND_OFF)

\* await self.async_update(), once the hub operation has returned: the
\* request for the channel states goes out.
AsyncUpdateStart ==
    /\ light_entity.pc = "turn_light"
    /\ light_pc = "returned"
    /\ events' = Append(events, StartEvent(fetch_channel_states(Fault("Exception")).sent[1]))
    /\ light_entity' = [light_entity EXCEPT !.pc = "async_update"]
    /\ UNCHANGED <<coverVars, hub_call, light_pc, light_op, entry, flow, tasks>>

\* async_update on its own (the entity is polled, or has been added): the
\* request for the channel states goes out.
async_update ==
    /\ light_entity.pc = "idle"
    /\ light_pc \in {"idle", "returned", "raised"}
    /\ events' = <<StartEvent(fetch_channel_states(Fault("Exception")).sent[1])>>
    /\ light_entity' = [light_entity EXCEPT !.pc = "async_update", !.handler = "async_update"]
    /\ UNCHANGED <<coverVars, hub_call, light_pc, light_op, entry, flow, tasks>>

\* self._state = await self._hub.get_light_state(self._channel_id): the
\* result is stored; an exception of get_light_state leaves async_update
\* and the handler awaiting it, and the state stays what it was.
AsyncUpdateDone(outcome) ==
    /\ light_entity.pc = "async_update"
    /\ LET r == get_light_state(channel_id, outcome)
       IN  IF r.raised
           THEN /\ events' = Append(events, PollEnd(r.sent[1], "raised"))
                /\ light_entity' = [light_entity EXCEPT !.pc = "idle", !.poll = "raised"]
           ELSE /\ events' = Append(events, PollEnd(r.sent[1], r.value))
                /\ light_entity' = [light_entity EXCEPT
                       !.pc = IF light_entity.handler = "async_update" THEN "idle" ELSE "write",
                       !.is_on = r.value, !.poll = r.value]
    /\ UNCHANGED <<coverVars, hub_call, light_pc, light_op, entry, flow, tasks>>

\* self.async_write_ha_state(); the handler returns.
WriteHaState ==
    /\ light_entity.pc = "write"
    /\ events' = Append(events, WriteEvent)
    /\ light_entity' = [light_entity EXCEPT !.pc = "idle"]
    /\ UNCHANGED <<coverVars, hub_call, light_pc, light_op, entry, flow, tasks>>

\* The steps of the hub operation run while the handler awaits it.
NextLightEntity ==
    \/ async_turn_on
    \/ async_turn_off
    \/ async_update
    \/ SendCommandStart
    \/ \E o \in CommandOutcomes : SendCommandDone(o)
    \/ AwaitUpdateStart
    \/ \E o \in CommandOutcomes : AwaitUpdateDone(o)
    \/ AsyncUpdateStart
    \/ \E o \in PollOutcomes : AsyncUpdateDone(o)
    \/ WriteHaState

SpecLightEntity == Init /\ [][NextLightEntity]_vars

----------------------------------------------------------------------------
(* Properties of the cover entity, checked under Spec *)

CommandRequest(channel, token) ==
    Request("POST", SEND_COMMAND_ENDPOINT, {<<"cmd" \o channel, token>>})

LastRequest == requests[Len(requests)]

\* C1: when the operation that last assigned the tracked state was an open
\* whose request succeeded, async_stop_cover sends exactly one command
\* request, "off" for the entity's channel; when it was a close whose
\* request succeeded, exactly one request, "on" for the entity's channel.
C1_StopSendsInverse ==
    lastOp.op = "stop" /\ ~lastOp.last.failed =>
        /\ lastOp.last.op = "open" =>
              lastOp.sent = 1 /\ LastRequest = CommandRequest(channel_id, "off")
        /\ lastOp.last.op = "close" =>
              lastOp.sent = 1 /\ LastRequest = CommandRequest(channel_id, "on")

C1_Witness ==
    /\ lastOp.op = "stop"
    /\ lastOp.last = [op |-> "open", failed |-> FALSE]
    /\ lastOp.sent = 1
    /\ Len(requests) = 2

\* C2: async_stop_cover invoked while previous_action is None sends no
\* request and leaves previous_action and is_closed as they were; a stop that
\* directly follows a stop which found a direction sends nothing, so the two
\* together send exactly one request.
C2_StopWhileIdleIsNoop ==
    [][lastOp'.op = "stop" =>
          /\ previous_action = None =>
                UNCHANGED <<requests, previous_action, is_closed>>
          /\ lastOp.op = "stop" /\ lastOp.prev /= None =>
                /\ requests' = requests
                /\ lastOp.sent + lastOp'.sent = 1]_vars

C2_Witness ==
    /\ lastOp.op = "stop"
    /\ lastOp.prev = None
    /\ lastOp.last.op = "stop"
    /\ lastOp.sent = 0
    /\ Len(requests) = 2

\* C3: open leaves previous_action = "open" and close leaves it "close"
\* whatever it was before; stop from "open" or "close" leaves it None; the
\* field never holds anything but None, "open" or "close".
C3_TransitionTable ==
    /\ previous_action \in {None, "open", "close"}
    /\ lastOp.prev \in {None, "open", "close"}
    /\ lastOp.op = "open" => previous_action = "open"
    /\ lastOp.op = "close" => previous_action = "close"
    /\ lastOp.op = "stop" /\ lastOp.prev \in {"open", "close"} =>
          previous_action = None

C3_Witness ==
    /\ lastOp.op = "stop"
    /\ lastOp.prev = "close"
    /\ lastOp.last.op = "close"
    /\ previous_action = None

\* C4: a cover operation whose command request failed leaves
\* previous_action and is_closed equal to their values before it.
C4_FailedCommandLeavesState ==
    lastOp.failed =>
        previous_action = lastOp.prev /\ is_closed = lastOp.closed

\* C7 as stated: tilt-open, tilt-close and toggle, from any tracked state
\* with a succeeding hub, send exactly one request and leave
\* previous_action = None.
C7_TiltToggleAlwaysReset ==
    lastOp.op \in {"open_tilt", "close_tilt", "toggle"} /\ ~lastOp.failed =>
        lastOp.sent = 1 /\ previous_action = None

\* C7 amended: tilt-open and toggle from any tracked state, and tilt-close
\* from Idle or MovedOpen, with a succeeding hub send exactly one request and
\* leave previous_action = None; tilt-close from MovedClosed sends no request
\* and leaves previous_action = "close".
C7_TiltToggleReset ==
    lastOp.op \in {"open_tilt", "close_tilt", "toggle"} /\ ~lastOp.failed =>
        IF lastOp.op = "close_tilt" /\ lastOp.prev = "close"
        THEN lastOp.sent = 0 /\ previous_action = "close"
        ELSE lastOp.sent = 1 /\ previous_action = None

C7_Witness ==
    /\ lastOp.op = "close_tilt"
    /\ lastOp.prev = "open"
    /\ ~lastOp.failed
    /\ lastOp.sent = 1
    /\ previous_action = None

----------------------------------------------------------------------------
(* Properties of the hub facade, checked under SpecHub *)

\* C8 as stated: blind_stop with an unset direction sends no request; with
\* "open" it sends exactly "off", with "close" exactly "on", for the channel.
C8_HubStopNoopWhenUnset ==
    hub_call.op = "blind_stop" =>
        /\ hub_call.arg = None => hub_call.result.sent = <<>>
        /\ hub_call.arg = "open" =>
              hub_call.result.sent = <<CommandRequest(hub_call.channel, "off")>>
        /\ hub_call.arg = "close" =>
              hub_call.result.sent = <<CommandRequest(hub_call.channel, "on")>>

\* C9: no request raises to its caller; a response with status 200 or 302
\* yields its body, and every other status and every fault yields None.
C9_TransportNeverRaises ==
    hub_call.op = "request" =>
        /\ ~hub_call.result.raised
        /\ IF hub_call.outcome.kind = "response" /\ hub_call.outcome.status \in {200, 302}
           THEN /\ hub_call.result.value = hub_call.outcome.body
                /\ hub_call.result.value /= NoBody
           ELSE hub_call.result.value = NoBody

C9_Witness ==
    /\ hub_call.op = "request"
    /\ hub_call.outcome = Fault("TimeoutError")
    /\ hub_call.result.sent[1].endpoint = NETWORK_INFO_ENDPOINT
    /\ hub_call.result.value = NoBody

\* The <val> text the scanned document holds for the channel, if any.
ScannedValue(channel, body) ==
    IF body.kind /= "xml" THEN NoText
    ELSE LET ch == find(body.root, "ch" \o channel)
         IN  IF ~ch.some THEN NoText
             ELSE LET val == find(ch.elem, "val")
                  IN  IF val.some THEN val.elem.text ELSE NoText

\* C6 as stated: get_light_state never raises; it returns False when the
\* fetch yields no body, when the body is malformed, when the channel or its
\* value is absent and when the value is no integer; False for "0" and True
\* for "1".
C6_LightStateFailSafe ==
    hub_call.op = "get_light_state" =>
        LET o == hub_call.outcome
            fetched == o.kind = "response" /\ o.status \in {200, 302}
            v == ScannedValue(hub_call.channel, o.body)
        IN  /\ ~hub_call.result.raised
            /\ ~fetched => hub_call.result.value = "False"
            /\ fetched /\ ~v.some => hub_call.result.value = "False"
            /\ fetched /\ v = Text(<<"0">>) => hub_call.result.value = "False"
            /\ fetched /\ v = Text(<<"1">>) => hub_call.result.value = "True"
            /\ fetched /\ v = Text(<<"a">>) => hub_call.result.value = "False"

----------------------------------------------------------------------------
(* Properties of turn_light_on / turn_light_off, checked under SpecLight *)

IsStart(i, endpoint) ==
    events[i].ev = "start" /\ events[i].request.endpoint = endpoint

IsEnd(i, endpoint) ==
    events[i].ev = "end" /\ events[i].request.endpoint = endpoint

\* C5 as stated: the notification request has started before the command
\* request starts.
C5_NotifyStartsBeforeCommand ==
    \A i \in DOMAIN events :
        IsStart(i, SEND_COMMAND_ENDPOINT) =>
            \E j \in 1..(i - 1) : IsStart(j, CHANNEL_NOTIFY_ENDPOINT)

\* C10: whatever the outcome of the notification request, turn_light_on /
\* turn_light_off never raises, and when it has returned it has sent exactly
\* one command request ("on" resp. "off" for its channel) and its
\* notification request has started and completed.
C10_NotifyFailureNonFatal ==
    /\ light_pc /= "raised"
    /\ light_pc = "returned" =>
          /\ Cardinality({i \in DOMAIN events : IsStart(i, SEND_COMMAND_ENDPOINT)}) = 1
          /\ \A i \in DOMAIN events : IsStart(i, SEND_COMMAND_ENDPOINT) =>
                events[i].request =
                    CommandRequest(light_op.channel,
                                   IF light_op.name = "turn_light_on" THEN "on" ELSE "off")
          /\ Cardinality({i \in DOMAIN events : IsStart(i, CHANNEL_NOTIFY_ENDPOINT)}) = 1
          /\ \E i \in DOMAIN events : IsEnd(i, CHANNEL_NOTIFY_ENDPOINT)

C10_Witness ==
    /\ light_pc = "returned"
    /\ light_op.name = "turn_light_off"
    /\ Len(events) = 4
    /\ events[4] = EndEvent(Request("GET", CHANNEL_NOTIFY_ENDPOINT, {}), Fault("TimeoutError"))

----------------------------------------------------------------------------
(* Properties of the parsers, checked under SpecHub *)

\* The <cat> of a channel element as the parser's caller sees it: "absent"
\* without a <cat> text, else what int() makes of the text.
CategoryOf(e) ==
    LET cat == find(e, "cat")
    IN  IF ~cat.some \/ ~cat.elem.text.some
        THEN [absent |-> TRUE]
        ELSE [absent |-> FALSE, int |-> int(cat.elem.text.chars)]

\* C11: for every document and every name mapping parse_channel_descriptions
\* returns a mapping without a channel of category -1: a channel element
\* whose <cat> is -1 or absent is left out, every other channel element is
\* in it under its tag with its integer category.
C11_NoUnknownCategory ==
    hub_call.op = "parse_channel_descriptions" /\ hub_call.xml.kind = "xml" =>
        /\ ~hub_call.result.raised
        /\ \A tag \in DOMAIN hub_call.result.value :
              hub_call.result.value[tag].category /= -1
        /\ \A i \in DOMAIN hub_call.xml.root.children :
              LET e == hub_call.xml.root.children[i]
                  cat == CategoryOf(e)
              IN  IF cat.absent \/ (~cat.int.raised /\ cat.int.value = -1)
                  THEN e.tag \notin DOMAIN hub_call.result.value
                  ELSE /\ e.tag \in DOMAIN hub_call.result.value
                       /\ ~cat.int.raised
                       /\ hub_call.result.value[e.tag].category = cat.int.value

ParserOps ==
    {"parse_channel_descriptions", "parse_channel_state",
     "parse_device_info", "parse_network_info"}

\* C12: handed text that is not well-formed XML, no parser raises:
\* parse_channel_descriptions returns the empty mapping, and
\* parse_channel_state, parse_device_info and parse_network_info return None.
C12_MalformedXmlDegrades ==
    hub_call.op \in ParserOps /\ hub_call.xml \in {MalformedBody, AckBody} =>
        /\ ~hub_call.result.raised
        /\ hub_call.op = "parse_channel_descriptions" =>
              DOMAIN hub_call.result.value = {}
        /\ hub_call.op = "parse_channel_state" => hub_call.result.value = NoText
        /\ hub_call.op \in {"parse_device_info", "parse_network_info"} =>
              hub_call.result.value = NoInfo

C12_Witness ==
    /\ hub_call.op = "parse_channel_descriptions"
    /\ hub_call.xml = MalformedBody
    /\ hub_call.names.some
    /\ ~hub_call.result.raised
    /\ hub_call.result.value = <<>>

\* C13: no parser raises, whatever it is handed (a document with absent,
\* empty or non-numeric elements, text that is no XML, no body at all), and
\* an absent element yields the default.
C13_ParsersAreTotal ==
    hub_call.op \in ParserOps =>
        /\ ~hub_call.result.raised
        /\ (hub_call.op = "parse_network_info" /\ hub_call.xml.kind = "xml"
               /\ ~find(hub_call.xml.root, "mac").some) =>
              hub_call.result.value = Info([mac |-> NoText])
        /\ (hub_call.op = "parse_channel_state" /\ hub_call.xml.kind = "xml"
               /\ ~find(hub_call.xml.root, "ch" \o hub_call.channel).some) =>
              hub_call.result.value = NoText

----------------------------------------------------------------------------
(* Properties of the config entry, checked under SpecEntry *)

\* A step of async_unload_entry.
UnloadStep == entry.state = "loaded" /\ entry'.state /= "loaded"

\* No request leaves the hub in a step that starts with the session closed.
NoRequestOnClosedSession ==
    entry.session = "closed" => requests' = requests /\ lastOp' = lastOp

C22_SetupHandsOverHubData ==
    /\ entry.data.some =>
          /\ entry.data.fields.channels.some
          /\ entry.data.fields.network.some
    /\ \A p \in PLATFORMS : entry.platforms[p].state /= "setup_error"
    /\ entry.state = "setup_error" => entry.session /= "open"

----------------------------------------------------------------------------
(* Properties of the config flow, checked under SpecFlow *)

\* C15: async_step_user with a host advances to the channels step only if
\* both reads returned a value and at least one channel was parsed;
\* otherwise it shows the user form again with an error and stores no
\* host; an entry is created only for a host whose probe succeeded.
C15_FailedProbeReshowsForm ==
    /\ flow.last.name = "user" =>
          IF flow.step = "channels"
          THEN /\ flow.last.channels /\ flow.last.device_info
               /\ flow.last.parsed >= 1
               /\ flow.data = Info([k \in {"host"} |-> flow.last.host])
          ELSE /\ flow.step = "user"
               /\ flow.errors \in {CANNOT_CONNECT, NO_CHANNELS}
               /\ flow.data = NoInfo
    /\ flow.created.some =>
          flow.created.fields.data["host"] \in flow.probed

----------------------------------------------------------------------------
(* Further properties of the blind entity, checked under Spec *)

\* C16: an operation that sends a hub command calls async_write_ha_state
\* exactly once, after the hub call has returned or raised; an operation
\* that returns early sends no command and writes no state.
C16_WriteFollowsHubCall ==
    lastOp.op /= "init" =>
        /\ lastOp.sent > 0 =>
              /\ lastOp.wrote = 1
              /\ Len(lastOp.steps) = 3
              /\ lastOp.steps[1] = "hub_call"
              /\ lastOp.steps[2] \in {"hub_returned", "hub_raised"}
              /\ lastOp.steps[3] = "async_write_ha_state"
        /\ lastOp.steps[1] = "return" =>
              /\ lastOp.sent = 0
              /\ lastOp.wrote = 0
              /\ lastOp.steps = <<"return">>
        /\ lastOp.sent > 0 \/ lastOp.steps[1] = "return"

\* A stop after an open has sent its command and then written the state.
C16_Witness ==
    /\ lastOp.op = "stop"
    /\ lastOp.prev = "open"
    /\ lastOp.sent = 1
    /\ lastOp.steps = <<"hub_call", "hub_returned", "async_write_ha_state">>

\* C18: is_closed is True exactly when previous_action is "close";
\* previous_action "open" implies is_closed False; is_closed is None only
\* while no operation has assigned the state, and then previous_action is
\* None.
C18_ClosedIffLastClose ==
    /\ is_closed = "True" <=> previous_action = "close"
    /\ previous_action = "open" => is_closed = "False"
    /\ is_closed = None => previous_action = None /\ lastAssign = NoAssign

\* A stop after a close: the direction is unset and the blind no longer
\* counts as closed.
C18_Witness ==
    /\ lastOp.op = "stop"
    /\ lastOp.closed = "True"
    /\ previous_action = None
    /\ is_closed = "False"

\* C19: async_close_cover_tilt from previous_action "close" sends no
\* request, writes no state and leaves previous_action and is_closed as
\* they were; from every other tracked state it sends exactly one
\* "dim_down_200" command for the entity's channel.
C19_CloseTiltGuarded ==
    lastOp.op = "close_tilt" =>
        IF lastOp.prev = "close"
        THEN /\ lastOp.sent = 0
             /\ lastOp.wrote = 0
             /\ previous_action = "close"
             /\ is_closed = lastOp.closed
             /\ lastAssign = lastOp.last
        ELSE /\ lastOp.sent = 1
             /\ LastRequest = CommandRequest(channel_id, "dim_down_200")

\* A tilt-close of an idle blind after a stop has sent its one command.
C19_Witness ==
    /\ lastOp.op = "close_tilt"
    /\ lastOp.prev = None
    /\ lastOp.last.op = "stop"
    /\ lastOp.sent = 1
    /\ LastRequest = CommandRequest(channel_id, "dim_down_200")

----------------------------------------------------------------------------
(* Properties of the light entity, checked under SpecLightEntity *)

TurnHandlers == {"async_turn_on", "async_turn_off"}

\* C17: in async_turn_on / async_turn_off the poll of the channel states
\* is issued only after the command request and the notification request
\* have completed, the state is written after the poll, and is_on equals
\* what the most recent get_light_state call gave (None before the first).
C17_LightStateIsPolled ==
    /\ light_entity.handler \in TurnHandlers =>
          /\ \A i \in DOMAIN events :
                IsStart(i, CHANNEL_STATES_ENDPOINT) =>
                    /\ \E j \in 1..(i - 1) : IsEnd(j, SEND_COMMAND_ENDPOINT)
                    /\ \E j \in 1..(i - 1) : IsEnd(j, CHANNEL_NOTIFY_ENDPOINT)
          /\ \A i \in DOMAIN events :
                events[i] = WriteEvent =>
                    \E j \in 1..(i - 1) : IsEnd(j, CHANNEL_STATES_ENDPOINT)
          /\ light_entity.pc = "idle" =>
                events[Len(events)] = WriteEvent
    /\ light_entity.is_on = light_entity.poll

----------------------------------------------------------------------------
(* Properties of concurrent handlers, checked under SpecConcurrent *)

\* The stop handlers that have sent their command.
StopCommands == {t \in TaskIds : tasks[t].op = "stop" /\ tasks[t].sent /= <<>>}

\* The open and close handlers whose command has succeeded.
SuccessfulMoves ==
    {t \in TaskIds : /\ tasks[t].op \in {"open", "close"}
                     /\ tasks[t].pc = "returned"
                     /\ ~tasks[t].failed}

\* C20: under any interleaving, the stop handlers have sent no more
\* commands than open and close commands have succeeded; two concurrent
\* stops after one open send at most one "off".
C20_StopsBoundedByMoves ==
    Cardinality(StopCommands) <= Cardinality(SuccessfulMoves)

\* Every handler that was started has returned.
AllReturned == \A t \in TaskIds : tasks[t].pc /= "awaiting"

\* The handler whose request was the last the hub was sent.
LastIssuer == CHOOSE t \in TaskIds : tasks[t].order = Len(requests)

\* C21: once all concurrent open, close and stop handlers have returned,
\* previous_action is "open" only if the last command sent for the channel
\* was the "on" of an open, and "close" only if it was the "off" of a close.
C21_DirectionAgreesWithLastCommand ==
    AllReturned /\ requests /= <<>> =>
        /\ previous_action = "open" =>
              /\ LastRequest = CommandRequest(channel_id, "on")
              /\ tasks[LastIssuer].op = "open"
        /\ previous_action = "close" =>
              /\ LastRequest = CommandRequest(channel_id, "off")
              /\ tasks[LastIssuer].op = "close"

====
